---- MODULE Spec2Model ----
(***************************************************************************)
(* The continuous listen-translate-speak pipeline of VoiceTranslatorApp    *)
(* (src/app.py) with the TextTranslator and TextToSpeech calls it makes.   *)
(*                                                                         *)
(* Threads of the program and how they appear here:                        *)
(*   - a UI handler per browser client (_toggle_auto_translation),         *)
(*   - the playback handler (_play_translation),                           *)
(*   - one _continuous_listening_worker thread per start,                  *)
(*   - one _process_audio_realtime thread per captured utterance.          *)
(* TextTranslator (src/modules/translator.py) is also driven on its own:    *)
(* translate_text against a backing service that raises or answers, and    *)
(* translate_with_cache with its lru_cache.                                *)
(* Texts are sequences of one-character strings, so that strip() and       *)
(* len() are computed and not assumed.                                     *)
(***************************************************************************)
EXTENDS Integers, Sequences, FiniteSets, TLC

\* ------------------------------------------------------------------ bounds

\* Utterances captured (processing threads spawned) in a run of Spec.
MaxUtterances == 1

\* Listening workers spawned (passes through the start branch) in a run of
\* Spec, SpecRace and SpecPlay.
MaxSessions == 1

\* Utterances captured in a run of SpecRace and SpecPlay, where processing
\* threads overlap.
MaxOverlap == 2

\* Listening workers spawned in a run of SpecClients, where sessions are
\* stopped and started again.
MaxRestarts == 2

\* Calls of translate_with_cache in a run of SpecCache.
MaxCalls == 3

\* Calls of translate_with_cache beyond the first lru_maxsize in a run of
\* SpecCacheFill.
MaxEvictions == 2

\* ------------------------------------------------------------------ values

\* Python's None, kept apart from every text (texts hold one-character strings).
None == <<"<None>">>

\* The empty str "".
Empty == <<>>

\* Python truthiness of an Optional[str].
Truthy(x) == x # None /\ x # Empty

RECURSIVE LStrip(_)
LStrip(s) == IF s # <<>> /\ Head(s) = " " THEN LStrip(Tail(s)) ELSE s

RECURSIVE RStrip(_)
RStrip(s) ==
    IF s # <<>> /\ s[Len(s)] = " " THEN RStrip(SubSeq(s, 1, Len(s) - 1)) ELSE s

\* str.strip()
Strip(s) == RStrip(LStrip(s))

\* What a recognition engine can hand back for one utterance.
RawTexts ==
    { <<>>,
      <<" ", "a", " ">>,
      <<"h", "o", "l", "a">> }

\* What the translation service can put in translation.text.
ServiceTexts ==
    { <<>>,
      <<" ">>,
      <<" ", "h", "i">>,
      <<"y", "o">> }

\* ------------------------------------------------------------------ LanguageCatalog

\* The (code, name) items of the dict literal of _get_supported_languages, as
\* written (lines 40-328), repeated keys included. A character outside Latin-1
\* is written {U+hhhh}, its code point.
language_items ==
    << <<"es", "Español">>,
       <<"en", "English">>,
       <<"fr", "Français">>,
       <<"de", "Deutsch">>,
       <<"it", "Italiano">>,
       <<"pt", "Português">>,
       <<"ru", "{U+0420}{U+0443}{U+0441}{U+0441}{U+043A}{U+0438}{U+0439}">>,
       <<"ja", "{U+65E5}{U+672C}{U+8A9E}">>,
       <<"ko", "{U+D55C}{U+AD6D}{U+C5B4}">>,
       <<"zh-cn", "{U+7B80}{U+4F53}{U+4E2D}{U+6587}">>,
       <<"zh-tw", "{U+7E41}{U+9AD4}{U+4E2D}{U+6587}">>,
       <<"ar", "{U+0627}{U+0644}{U+0639}{U+0631}{U+0628}{U+064A}{U+0629}">>,
       <<"hi", "{U+0939}{U+093F}{U+0928}{U+094D}{U+0926}{U+0940}">>,
       <<"nl", "Nederlands">>,
       <<"sv", "Svenska">>,
       <<"da", "Dansk">>,
       <<"no", "Norsk">>,
       <<"fi", "Suomi">>,
       <<"pl", "Polski">>,
       <<"tr", "Türkçe">>,
       <<"he", "{U+05E2}{U+05D1}{U+05E8}{U+05D9}{U+05EA}">>,
       <<"th", "{U+0E44}{U+0E17}{U+0E22}">>,
       <<"vi", "Ti{U+1EBF}ng Vi{U+1EC7}t">>,
       <<"cs", "{U+010C}e{U+0161}tina">>,
       <<"el", "{U+0395}{U+03BB}{U+03BB}{U+03B7}{U+03BD}{U+03B9}{U+03BA}{U+03AC}">>,
       <<"hu", "Magyar">>,
       <<"ro", "Român{U+0103}">>,
       <<"bg", "{U+0411}{U+044A}{U+043B}{U+0433}{U+0430}{U+0440}{U+0441}{U+043A}{U+0438}">>,
       <<"hr", "Hrvatski">>,
       <<"sk", "Sloven{U+010D}ina">>,
       <<"sl", "Sloven{U+0161}{U+010D}ina">>,
       <<"et", "Eesti">>,
       <<"lv", "Latvie{U+0161}u">>,
       <<"lt", "Lietuvi{U+0173}">>,
       <<"mt", "Malti">>,
       <<"ga", "Gaeilge">>,
       <<"cy", "Cymraeg">>,
       <<"is", "Íslenska">>,
       <<"sq", "Shqip">>,
       <<"mk", "{U+041C}{U+0430}{U+043A}{U+0435}{U+0434}{U+043E}{U+043D}{U+0441}{U+043A}{U+0438}">>,
       <<"sr", "{U+0421}{U+0440}{U+043F}{U+0441}{U+043A}{U+0438}">>,
       <<"bs", "Bosanski">>,
       <<"me", "Crnogorski">>,
       <<"al", "Gjuha Shqipe">>,
       <<"hy", "{U+0540}{U+0561}{U+0575}{U+0565}{U+0580}{U+0565}{U+0576}">>,
       <<"ka", "{U+10E5}{U+10D0}{U+10E0}{U+10D7}{U+10E3}{U+10DA}{U+10D8}">>,
       <<"az", "Az{U+0259}rbaycan">>,
       <<"kk", "{U+049A}{U+0430}{U+0437}{U+0430}{U+049B}{U+0448}{U+0430}">>,
       <<"ky", "{U+041A}{U+044B}{U+0440}{U+0433}{U+044B}{U+0437}{U+0447}{U+0430}">>,
       <<"tg", "{U+0422}{U+043E}{U+04B7}{U+0438}{U+043A}{U+04E3}">>,
       <<"tk", "Türkmençe">>,
       <<"uz", "O{U+02BB}zbekcha">>,
       <<"mn", "{U+041C}{U+043E}{U+043D}{U+0433}{U+043E}{U+043B}">>,
       <<"ne", "{U+0928}{U+0947}{U+092A}{U+093E}{U+0932}{U+0940}">>,
       <<"si", "{U+0DC3}{U+0DD2}{U+0D82}{U+0DC4}{U+0DBD}">>,
       <<"ta", "{U+0BA4}{U+0BAE}{U+0BBF}{U+0BB4}{U+0BCD}">>,
       <<"te", "{U+0C24}{U+0C46}{U+0C32}{U+0C41}{U+0C17}{U+0C41}">>,
       <<"kn", "{U+0C95}{U+0CA8}{U+0CCD}{U+0CA8}{U+0CA1}">>,
       <<"ml", "{U+0D2E}{U+0D32}{U+0D2F}{U+0D3E}{U+0D33}{U+0D02}">>,
       <<"or", "{U+0B13}{U+0B21}{U+0B3C}{U+0B3F}{U+0B06}">>,
       <<"pa", "{U+0A2A}{U+0A70}{U+0A1C}{U+0A3E}{U+0A2C}{U+0A40}">>,
       <<"gu", "{U+0A97}{U+0AC1}{U+0A9C}{U+0AB0}{U+0ABE}{U+0AA4}{U+0AC0}">>,
       <<"mr", "{U+092E}{U+0930}{U+093E}{U+0920}{U+0940}">>,
       <<"as", "{U+0985}{U+09B8}{U+09AE}{U+09C0}{U+09AF}{U+09BC}{U+09BE}">>,
       <<"bn", "{U+09AC}{U+09BE}{U+0982}{U+09B2}{U+09BE}">>,
       <<"ur", "{U+0627}{U+0631}{U+062F}{U+0648}">>,
       <<"fa", "{U+0641}{U+0627}{U+0631}{U+0633}{U+06CC}">>,
       <<"ps", "{U+067E}{U+069A}{U+062A}{U+0648}">>,
       <<"ku", "Kurdî">>,
       <<"sd", "{U+0633}{U+0646}{U+068C}{U+064A}">>,
       <<"dv", "{U+078B}{U+07A8}{U+0788}{U+07AC}{U+0780}{U+07A8}">>,
       <<"am", "{U+12A0}{U+121B}{U+122D}{U+129B}">>,
       <<"ti", "{U+1275}{U+130D}{U+122D}{U+129B}">>,
       <<"om", "Afaan Oromoo">>,
       <<"so", "Soomaali">>,
       <<"sw", "Kiswahili">>,
       <<"rw", "Kinyarwanda">>,
       <<"rn", "Kirundi">>,
       <<"lg", "Luganda">>,
       <<"ak", "Akan">>,
       <<"tw", "Twi">>,
       <<"ee", "Ewe">>,
       <<"ha", "{U+0647}{U+064E}{U+0648}{U+064F}{U+0633}{U+064E}">>,
       <<"yo", "Yorùbá">>,
       <<"ig", "Igbo">>,
       <<"zu", "isiZulu">>,
       <<"xh", "isiXhosa">>,
       <<"af", "Afrikaans">>,
       <<"st", "Sesotho">>,
       <<"tn", "Setswana">>,
       <<"ts", "Xitsonga">>,
       <<"ve", "Tshivenda">>,
       <<"nr", "isiNdebele">>,
       <<"ss", "siSwati">>,
       <<"ny", "Chichewa">>,
       <<"sn", "Shona">>,
       <<"mg", "Malagasy">>,
       <<"km", "{U+1781}{U+17D2}{U+1798}{U+17C2}{U+179A}">>,
       <<"lo", "{U+0EA5}{U+0EB2}{U+0EA7}">>,
       <<"my", "{U+1019}{U+103C}{U+1014}{U+103A}{U+1019}{U+102C}{U+1018}{U+102C}{U+101E}{U+102C}">>,
       <<"jv", "Jawa">>,
       <<"su", "Sunda">>,
       <<"ms", "Bahasa Melayu">>,
       <<"id", "Bahasa Indonesia">>,
       <<"tl", "Filipino">>,
       <<"ceb", "Cebuano">>,
       <<"jw", "Jawa">>,
       <<"haw", "{U+02BB}{U+014C}lelo Hawai{U+02BB}i">>,
       <<"mi", "M{U+0101}ori">>,
       <<"sm", "Gagana Samoa">>,
       <<"to", "Lea faka-Tonga">>,
       <<"fj", "Na vosa vaka-Viti">>,
       <<"ty", "Reo Tahiti">>,
       <<"la", "Latina">>,
       <<"eo", "Esperanto">>,
       <<"ia", "Interlingua">>,
       <<"vo", "Volapük">>,
       <<"kl", "Kalaallisut">>,
       <<"iu", "{U+1403}{U+14C4}{U+1483}{U+144E}{U+1450}{U+1466}">>,
       <<"oj", "{U+140A}{U+14C2}{U+1511}{U+14C8}{U+142F}{U+14A7}{U+1403}{U+1427}{U+1423}">>,
       <<"cr", "{U+14C7}{U+1426}{U+148B}{U+152A}{U+1403}{U+1427}{U+1423}">>,
       <<"ch", "Chamoru">>,
       <<"mh", "Kajin M{U+0327}aje{U+013C}">>,
       <<"na", "Dorerin Naoero">>,
       <<"pi", "{U+092A}{U+093E}{U+0932}{U+093F}">>,
       <<"sa", "{U+0938}{U+0902}{U+0938}{U+094D}{U+0915}{U+0943}{U+0924}{U+092E}{U+094D}">>,
       <<"bo", "{U+0F56}{U+0F7C}{U+0F51}{U+0F0B}{U+0F66}{U+0F90}{U+0F51}{U+0F0B}">>,
       <<"dz", "{U+0F62}{U+0FAB}{U+0F7C}{U+0F44}{U+0F0B}{U+0F41}">>,
       <<"ii", "{U+A188}{U+A320}{U+A4BF}">>,
       <<"ug", "{U+0626}{U+06C7}{U+064A}{U+063A}{U+06C7}{U+0631}{U+0686}{U+06D5}">>,
       <<"yi", "{U+05D9}{U+05D9}{U+05B4}{U+05D3}{U+05D9}{U+05E9}">>,
       <<"qu", "Runa Simi">>,
       <<"gn", "Avañe{U+1EBD}">>,
       <<"ay", "Aymar aru">>,
       <<"xh", "isiXhosa">>,
       <<"zu", "isiZulu">>,
       <<"ts", "Xitsonga">>,
       <<"tn", "Setswana">>,
       <<"st", "Sesotho">>,
       <<"ss", "siSwati">>,
       <<"nr", "isiNdebele">>,
       <<"ve", "Tshivenda">>,
       <<"ny", "Chichewa">>,
       <<"sn", "Shona">>,
       <<"nd", "isiNdebele">>,
       <<"mg", "Fiteny malagasy">>,
       <<"hmn", "Hmoob">>,
       <<"mai", "{U+092E}{U+0948}{U+0925}{U+093F}{U+0932}{U+0940}">>,
       <<"bh", "{U+092D}{U+094B}{U+091C}{U+092A}{U+0941}{U+0930}{U+0940}">>,
       <<"mai", "{U+092E}{U+0948}{U+0925}{U+093F}{U+0932}{U+0940}">>,
       <<"new", "{U+0928}{U+0947}{U+092A}{U+093E}{U+0932} {U+092D}{U+093E}{U+0937}{U+093E}">>,
       <<"sa", "{U+0938}{U+0902}{U+0938}{U+094D}{U+0915}{U+0943}{U+0924}{U+092E}{U+094D}">>,
       <<"si", "{U+0DC3}{U+0DD2}{U+0D82}{U+0DC4}{U+0DBD}">>,
       <<"ta", "{U+0BA4}{U+0BAE}{U+0BBF}{U+0BB4}{U+0BCD}">>,
       <<"te", "{U+0C24}{U+0C46}{U+0C32}{U+0C41}{U+0C17}{U+0C41}">>,
       <<"kn", "{U+0C95}{U+0CA8}{U+0CCD}{U+0CA8}{U+0CA1}">>,
       <<"ml", "{U+0D2E}{U+0D32}{U+0D2F}{U+0D3E}{U+0D33}{U+0D02}">>,
       <<"or", "{U+0B13}{U+0B21}{U+0B3C}{U+0B3F}{U+0B06}">>,
       <<"pa", "{U+0A2A}{U+0A70}{U+0A1C}{U+0A3E}{U+0A2C}{U+0A40}">>,
       <<"gu", "{U+0A97}{U+0AC1}{U+0A9C}{U+0AB0}{U+0ABE}{U+0AA4}{U+0AC0}">>,
       <<"mr", "{U+092E}{U+0930}{U+093E}{U+0920}{U+0940}">>,
       <<"as", "{U+0985}{U+09B8}{U+09AE}{U+09C0}{U+09AF}{U+09BC}{U+09BE}">>,
       <<"bn", "{U+09AC}{U+09BE}{U+0982}{U+09B2}{U+09BE}">>,
       <<"ne", "{U+0928}{U+0947}{U+092A}{U+093E}{U+0932}{U+0940}">>,
       <<"or", "{U+0B13}{U+0B21}{U+0B3C}{U+0B3F}{U+0B06}">>,
       <<"pa", "{U+0A2A}{U+0A70}{U+0A1C}{U+0A3E}{U+0A2C}{U+0A40}">>,
       <<"gu", "{U+0A97}{U+0AC1}{U+0A9C}{U+0AB0}{U+0ABE}{U+0AA4}{U+0AC0}">>,
       <<"mr", "{U+092E}{U+0930}{U+093E}{U+0920}{U+0940}">>,
       <<"as", "{U+0985}{U+09B8}{U+09AE}{U+09C0}{U+09AF}{U+09BC}{U+09BE}">>,
       <<"bn", "{U+09AC}{U+09BE}{U+0982}{U+09B2}{U+09BE}">>,
       <<"ur", "{U+0627}{U+0631}{U+062F}{U+0648}">>,
       <<"fa", "{U+0641}{U+0627}{U+0631}{U+0633}{U+06CC}">>,
       <<"ps", "{U+067E}{U+069A}{U+062A}{U+0648}">>,
       <<"ku", "Kurdî">>,
       <<"sd", "{U+0633}{U+0646}{U+068C}{U+064A}">>,
       <<"tg", "{U+0422}{U+043E}{U+04B7}{U+0438}{U+043A}{U+04E3}">>,
       <<"tk", "Türkmençe">>,
       <<"uz", "O{U+02BB}zbekcha">>,
       <<"az", "Az{U+0259}rbaycan">>,
       <<"kk", "{U+049A}{U+0430}{U+0437}{U+0430}{U+049B}{U+0448}{U+0430}">>,
       <<"ky", "{U+041A}{U+044B}{U+0440}{U+0433}{U+044B}{U+0437}{U+0447}{U+0430}">>,
       <<"tt", "{U+0422}{U+0430}{U+0442}{U+0430}{U+0440}{U+0447}{U+0430}">>,
       <<"ba", "{U+0411}{U+0430}{U+0448}{U+04A1}{U+043E}{U+0440}{U+0442}{U+0441}{U+0430}">>,
       <<"cv", "{U+0427}{U+04D1}{U+0432}{U+0430}{U+0448}{U+043B}{U+0430}">>,
       <<"ce", "{U+041D}{U+043E}{U+0445}{U+0447}{U+0438}{U+0439}{U+043D} {U+043C}{U+043E}{U+0442}{U+0442}">>,
       <<"os", "{U+0418}{U+0440}{U+043E}{U+043D} æ{U+0432}{U+0437}{U+0430}{U+0433}">>,
       <<"ab", "{U+0410}{U+04A7}{U+0441}{U+0448}{U+04D9}{U+0430}">>,
       <<"kv", "{U+041A}{U+043E}{U+043C}{U+0438} {U+043A}{U+044B}{U+0432}">>,
       <<"udm", "{U+0423}{U+0434}{U+043C}{U+0443}{U+0440}{U+0442} {U+043A}{U+044B}{U+043B}">>,
       <<"sah", "{U+0421}{U+0430}{U+0445}{U+0430} {U+0442}{U+044B}{U+043B}{U+0430}">>,
       <<"xal", "{U+0425}{U+0430}{U+043B}{U+044C}{U+043C}{U+0433} {U+043A}{U+0435}{U+043B}{U+043D}">>,
       <<"bxr", "{U+0411}{U+0443}{U+0440}{U+044F}{U+0430}{U+0434} {U+0445}{U+044D}{U+043B}{U+044D}{U+043D}">>,
       <<"evn", "{U+042D}{U+0432}{U+0435}{U+043D}{U+043A}{U+0438}{U+0439}{U+0441}{U+043A}{U+0438}{U+0439}">>,
       <<"ckt", "{U+0427}{U+0443}{U+043A}{U+043E}{U+0442}{U+0441}{U+043A}{U+0438}{U+0439}">>,
       <<"koi", "{U+041A}{U+043E}{U+043C}{U+0438}-{U+041F}{U+0435}{U+0440}{U+043C}{U+044F}{U+0446}{U+043A}{U+0438}{U+0439}">>,
       <<"mns", "{U+041C}{U+0430}{U+043D}{U+0441}{U+0438}{U+0439}{U+0441}{U+043A}{U+0438}{U+0439}">>,
       <<"mrj", "{U+0413}{U+043E}{U+0440}{U+043D}{U+043E}{U+043C}{U+0430}{U+0440}{U+0438}{U+0439}{U+0441}{U+043A}{U+0438}{U+0439}">>,
       <<"chm", "{U+041B}{U+0443}{U+0433}{U+043E}{U+0432}{U+043E}{U+043C}{U+0430}{U+0440}{U+0438}{U+0439}{U+0441}{U+043A}{U+0438}{U+0439}">>,
       <<"mdf", "{U+041C}{U+043E}{U+043A}{U+0448}{U+0435}{U+043D}{U+044C} {U+043A}{U+0435}{U+043B}{U+044C}">>,
       <<"myv", "{U+042D}{U+0440}{U+0437}{U+044F}{U+043D}{U+044C} {U+043A}{U+0435}{U+043B}{U+044C}">>,
       <<"krc", "{U+041A}{U+044A}{U+0430}{U+0440}{U+0430}{U+0447}{U+0430}{U+0439}-{U+043C}{U+0430}{U+043B}{U+043A}{U+044A}{U+0430}{U+0440} {U+0442}{U+0438}{U+043B}">>,
       <<"nog", "{U+041D}{U+043E}{U+0433}{U+0430}{U+0439} {U+0442}{U+0438}{U+043B}">>,
       <<"kjh", "{U+0425}{U+0430}{U+043A}{U+0430}{U+0441}{U+0441}{U+043A}{U+0438}{U+0439}">>,
       <<"alt", "{U+0410}{U+043B}{U+0442}{U+0430}{U+0439}{U+0441}{U+043A}{U+0438}{U+0439}">>,
       <<"ch", "Chamoru">>,
       <<"mh", "Kajin M{U+0327}aje{U+013C}">>,
       <<"na", "Dorerin Naoero">>,
       <<"pi", "{U+092A}{U+093E}{U+0932}{U+093F}">>,
       <<"sa", "{U+0938}{U+0902}{U+0938}{U+094D}{U+0915}{U+0943}{U+0924}{U+092E}{U+094D}">>,
       <<"bo", "{U+0F56}{U+0F7C}{U+0F51}{U+0F0B}{U+0F66}{U+0F90}{U+0F51}{U+0F0B}">>,
       <<"dz", "{U+0F62}{U+0FAB}{U+0F7C}{U+0F44}{U+0F0B}{U+0F41}">>,
       <<"ii", "{U+A188}{U+A320}{U+A4BF}">>,
       <<"ug", "{U+0626}{U+06C7}{U+064A}{U+063A}{U+06C7}{U+0631}{U+0686}{U+06D5}">>,
       <<"yi", "{U+05D9}{U+05D9}{U+05B4}{U+05D3}{U+05D9}{U+05E9}">>,
       <<"qu", "Runa Simi">>,
       <<"gn", "Avañe{U+1EBD}">>,
       <<"ay", "Aymar aru">>,
       <<"xh", "isiXhosa">>,
       <<"zu", "isiZulu">>,
       <<"ts", "Xitsonga">>,
       <<"tn", "Setswana">>,
       <<"st", "Sesotho">>,
       <<"ss", "siSwati">>,
       <<"nr", "isiNdebele">>,
       <<"ve", "Tshivenda">>,
       <<"ny", "Chichewa">>,
       <<"sn", "Shona">>,
       <<"nd", "isiNdebele">>,
       <<"mg", "Fiteny malagasy">>,
       <<"hmn", "Hmoob">>,
       <<"mai", "{U+092E}{U+0948}{U+0925}{U+093F}{U+0932}{U+0940}">>,
       <<"bh", "{U+092D}{U+094B}{U+091C}{U+092A}{U+0941}{U+0930}{U+0940}">>,
       <<"mai", "{U+092E}{U+0948}{U+0925}{U+093F}{U+0932}{U+0940}">>,
       <<"new", "{U+0928}{U+0947}{U+092A}{U+093E}{U+0932} {U+092D}{U+093E}{U+0937}{U+093E}">>,
       <<"sa", "{U+0938}{U+0902}{U+0938}{U+094D}{U+0915}{U+0943}{U+0924}{U+092E}{U+094D}">>,
       <<"si", "{U+0DC3}{U+0DD2}{U+0D82}{U+0DC4}{U+0DBD}">>,
       <<"ta", "{U+0BA4}{U+0BAE}{U+0BBF}{U+0BB4}{U+0BCD}">>,
       <<"te", "{U+0C24}{U+0C46}{U+0C32}{U+0C41}{U+0C17}{U+0C41}">>,
       <<"kn", "{U+0C95}{U+0CA8}{U+0CCD}{U+0CA8}{U+0CA1}">>,
       <<"ml", "{U+0D2E}{U+0D32}{U+0D2F}{U+0D3E}{U+0D33}{U+0D02}">>,
       <<"or", "{U+0B13}{U+0B21}{U+0B3C}{U+0B3F}{U+0B06}">>,
       <<"pa", "{U+0A2A}{U+0A70}{U+0A1C}{U+0A3E}{U+0A2C}{U+0A40}">>,
       <<"gu", "{U+0A97}{U+0AC1}{U+0A9C}{U+0AB0}{U+0ABE}{U+0AA4}{U+0A40}">>,
       <<"mr", "{U+092E}{U+0930}{U+093E}{U+0920}{U+0940}">>,
       <<"as", "{U+0985}{U+09B8}{U+09AE}{U+09C0}{U+09AF}{U+09BC}{U+09BE}">>,
       <<"bn", "{U+09AC}{U+09BE}{U+0982}{U+09B2}{U+09BE}">>,
       <<"ne", "{U+0928}{U+0947}{U+092A}{U+093E}{U+0932}{U+0940}">>,
       <<"or", "{U+0B13}{U+0B21}{U+0B3C}{U+0B3F}{U+0B06}">>,
       <<"pa", "{U+0A2A}{U+0A70}{U+0A1C}{U+0A3E}{U+0A2C}{U+0A40}">>,
       <<"gu", "{U+0A97}{U+0AC1}{U+0A9C}{U+0AB0}{U+0ABE}{U+0AA4}{U+0A40}">>,
       <<"mr", "{U+092E}{U+0930}{U+093E}{U+0920}{U+0940}">>,
       <<"as", "{U+0985}{U+09B8}{U+09AE}{U+09C0}{U+09AF}{U+09BC}{U+09BE}">>,
       <<"bn", "{U+09AC}{U+09BE}{U+0982}{U+09B2}{U+09BE}">>,
       <<"ur", "{U+0627}{U+0631}{U+062F}{U+0648}">>,
       <<"fa", "{U+0641}{U+0627}{U+0631}{U+0633}{U+06CC}">>,
       <<"ps", "{U+067E}{U+069A}{U+062A}{U+0648}">>,
       <<"ku", "Kurdî">>,
       <<"sd", "{U+0633}{U+0646}{U+068C}{U+064A}">>,
       <<"tg", "{U+0422}{U+043E}{U+04B7}{U+0438}{U+043A}{U+04E3}">>,
       <<"tk", "Türkmençe">>,
       <<"uz", "O{U+02BB}zbekcha">>,
       <<"az", "Az{U+0259}rbaycan">>,
       <<"kk", "{U+049A}{U+0430}{U+0437}{U+0430}{U+049B}{U+0448}{U+0430}">>,
       <<"ky", "{U+041A}{U+044B}{U+0440}{U+0433}{U+044B}{U+0437}{U+0447}{U+0430}">>,
       <<"tt", "{U+0422}{U+0430}{U+0442}{U+0430}{U+0440}{U+0447}{U+0430}">>,
       <<"ba", "{U+0411}{U+0430}{U+0448}{U+04A1}{U+043E}{U+0440}{U+0442}{U+0441}{U+0430}">>,
       <<"cv", "{U+0427}{U+04D1}{U+0432}{U+0430}{U+0448}{U+043B}{U+0430}">>,
       <<"ce", "{U+041D}{U+043E}{U+0445}{U+0447}{U+0438}{U+0439}{U+043D} {U+043C}{U+043E}{U+0442}{U+0442}">>,
       <<"os", "{U+0418}{U+0440}{U+043E}{U+043D} æ{U+0432}{U+0437}{U+0430}{U+0433}">>,
       <<"ab", "{U+0410}{U+04A7}{U+0441}{U+0448}{U+04D9}{U+0430}">>,
       <<"kv", "{U+041A}{U+043E}{U+043C}{U+0438} {U+043A}{U+044B}{U+0432}">>,
       <<"udm", "{U+0423}{U+0434}{U+043C}{U+0443}{U+0440}{U+0442} {U+043A}{U+044B}{U+043B}">>,
       <<"sah", "{U+0421}{U+0430}{U+0445}{U+0430} {U+0442}{U+044B}{U+043B}{U+0430}">>,
       <<"xal", "{U+0425}{U+0430}{U+043B}{U+044C}{U+043C}{U+0433} {U+043A}{U+0435}{U+043B}{U+043D}">>,
       <<"bxr", "{U+0411}{U+0443}{U+0440}{U+044F}{U+0430}{U+0434} {U+0445}{U+044D}{U+043B}{U+044D}{U+043D}">>,
       <<"evn", "{U+042D}{U+0432}{U+0435}{U+043D}{U+043A}{U+0438}{U+0439}{U+0441}{U+043A}{U+0438}{U+0439}">>,
       <<"ckt", "{U+0427}{U+0443}{U+043A}{U+043E}{U+0442}{U+0441}{U+043A}{U+0438}{U+0439}">>,
       <<"koi", "{U+041A}{U+043E}{U+043C}{U+0438}-{U+041F}{U+0435}{U+0440}{U+043C}{U+044F}{U+0446}{U+043A}{U+0438}{U+0439}">>,
       <<"mns", "{U+041C}{U+0430}{U+043D}{U+0441}{U+0438}{U+0439}{U+0441}{U+043A}{U+0438}{U+0439}">>,
       <<"mrj", "{U+0413}{U+043E}{U+0440}{U+043D}{U+043E}{U+043C}{U+0430}{U+0440}{U+0438}{U+0439}{U+0441}{U+043A}{U+0438}{U+0439}">>,
       <<"chm", "{U+041B}{U+0443}{U+0433}{U+043E}{U+0432}{U+043E}{U+043C}{U+0430}{U+0440}{U+0438}{U+0439}{U+0441}{U+043A}{U+0438}{U+0439}">>,
       <<"mdf", "{U+041C}{U+043E}{U+043A}{U+0448}{U+0435}{U+043D}{U+044C} {U+043A}{U+0435}{U+043B}{U+044C}">>,
       <<"myv", "{U+042D}{U+0440}{U+0437}{U+044F}{U+043D}{U+044C} {U+043A}{U+0435}{U+043B}{U+044C}">>,
       <<"krc", "{U+041A}{U+044A}{U+0430}{U+0440}{U+0430}{U+0447}{U+0430}{U+0439}-{U+043C}{U+0430}{U+043B}{U+043A}{U+044A}{U+0430}{U+0440} {U+0442}{U+0438}{U+043B}">>,
       <<"nog", "{U+041D}{U+043E}{U+0433}{U+0430}{U+0439} {U+0442}{U+0438}{U+043B}">>,
       <<"kjh", "{U+0425}{U+0430}{U+043A}{U+0430}{U+0441}{U+0441}{U+043A}{U+0438}{U+0439}">>,
       <<"alt", "{U+0410}{U+043B}{U+0442}{U+0430}{U+0439}{U+0441}{U+043A}{U+0438}{U+0439}">> >>

\* Position of the item of `code` in a list of items, 0 when it has none.
CodeIndex(items, code) ==
    IF \E i \in DOMAIN items : items[i][1] = code
    THEN CHOOSE i \in DOMAIN items : items[i][1] = code
    ELSE 0

\* The last item given for the code.
LastItem(items, code) ==
    LET places == { i \in DOMAIN items : items[i][1] = code }
    IN  items[CHOOSE i \in places : \A j \in places : j <= i]

\* The dict a literal builds: a repeated key keeps its first place and takes
\* the last value given for it.
DictItems(items) ==
    LET placed == [i \in DOMAIN items |-> << i, items[i][1] >>]
        IsFirst(e) == \A j \in 1..(e[1] - 1) : items[j][1] # e[2]
        first == SelectSeq(placed, IsFirst)
    IN  [k \in DOMAIN first |-> LastItem(items, first[k][2])]

\* TextTranslator.languages: the (code, name) items of the dict in insertion
\* order.
languages == DictItems(language_items)

\* get_supported_languages_list sorts the items by name with a stable sort, so
\* among equal names the dict order is kept: scanning for the first item with a
\* given name finds the same item in either order.
get_supported_languages_list == languages

\* ScanLanguages answering with the name it was asked about when no item has it.
ScanLanguages_NoFallback(list, language_name) ==
    IF \E i \in DOMAIN list : list[i][2] = language_name
    THEN list[CHOOSE i \in DOMAIN list :
                /\ list[i][2] = language_name
                /\ \A j \in 1..(i - 1) : list[j][2] # language_name][1]
    ELSE language_name

\* Lines 437-441: the code of the first item with this name, or the fallback.
ScanLanguages(list, language_name) ==
    IF \E i \in DOMAIN list : list[i][2] = language_name
    THEN list[CHOOSE i \in DOMAIN list :
                /\ list[i][2] = language_name
                /\ \A j \in 1..(i - 1) : list[j][2] # language_name][1]
    ELSE "es"

\* VoiceTranslatorApp._get_language_code
_get_language_code(language_name) ==
    ScanLanguages(get_supported_languages_list, language_name)

\* TextTranslator.get_language_name: self.languages.get(lang_code).
get_language_name(lang_code) ==
    LET i == CodeIndex(languages, lang_code) IN
    IF i = 0 THEN None ELSE languages[i][2]

\* The codes and the display names of the catalog.
Codes == { languages[i][1] : i \in DOMAIN languages }
Names == { languages[i][2] : i \in DOMAIN languages }

\* Before any look-up.
NoLookup == [entry |-> "none", input |-> "", name |-> "", result |-> "es"]

\* The selections of the two language dropdowns at start (their defaults).
default_source_lang == "Español"
default_target_lang == "English"

\* ------------------------------------------------------------------ Translator

\* TextTranslator.max_retries
max_retries == 3

\* self.translator.translate raising.
Raise == <<"<raise>">>

\* One answer of the backing service: it raises, or returns a translation whose
\* text is None (or no translation), or returns a text.
Responses == {Raise, None} \cup ServiceTexts

\* What the backing service does on each attempt of one translate_text call:
\* it raises on the first k attempts and then answers r (the loop never asks
\* again after an answer, so later attempts need not vary).
ServiceBehaviours ==
    { [attempt \in 1..max_retries |-> IF attempt <= k THEN Raise ELSE r] :
        k \in 0..max_retries, r \in Responses \ {Raise} }

\* RetryLoop giving up at the first exception.
RECURSIVE RetryLoop_NoRetry(_, _)
RetryLoop_NoRetry(svc, attempt) ==
    IF attempt >= max_retries
    THEN [result |-> None, calls |-> attempt]
    ELSE LET translation == svc[attempt + 1] IN
         IF translation = Raise
         THEN [result |-> None, calls |-> attempt + 1]
         ELSE IF Truthy(translation)
              THEN [result |-> Strip(translation), calls |-> attempt + 1]
              ELSE [result |-> None, calls |-> attempt + 1]

\* RetryLoop with the test of line 384 off by one: the last attempt is not made.
RECURSIVE RetryLoop_OneAttemptShort(_, _)
RetryLoop_OneAttemptShort(svc, attempt) ==
    IF attempt >= max_retries
    THEN [result |-> None, calls |-> attempt]
    ELSE LET translation == svc[attempt + 1] IN
         IF translation = Raise
         THEN IF attempt < max_retries - 2
              THEN RetryLoop_OneAttemptShort(svc, attempt + 1)
              ELSE [result |-> None, calls |-> attempt + 1]
         ELSE IF Truthy(translation)
              THEN [result |-> Strip(translation), calls |-> attempt + 1]
              ELSE [result |-> None, calls |-> attempt + 1]

\* RetryLoop treating an answer without text as a failed attempt to be retried.
RECURSIVE RetryLoop_RetryOnEmpty(_, _)
RetryLoop_RetryOnEmpty(svc, attempt) ==
    IF attempt >= max_retries
    THEN [result |-> None, calls |-> attempt]
    ELSE LET translation == svc[attempt + 1] IN
         IF translation = Raise \/ ~Truthy(translation)
         THEN IF attempt < max_retries - 1
              THEN RetryLoop_RetryOnEmpty(svc, attempt + 1)
              ELSE [result |-> None, calls |-> attempt + 1]
         ELSE [result |-> Strip(translation), calls |-> attempt + 1]

\* The body of the retry loop from attempt `attempt` (0-based) on; `calls`
\* counts the invocations of self.translator.translate.
RECURSIVE RetryLoop(_, _)
RetryLoop(svc, attempt) ==
    IF attempt >= max_retries
    THEN [result |-> None, calls |-> attempt]
    ELSE LET translation == svc[attempt + 1] IN
         IF translation = Raise
         THEN IF attempt < max_retries - 1
              THEN RetryLoop(svc, attempt + 1)
              ELSE [result |-> None, calls |-> attempt + 1]
         ELSE IF Truthy(translation)
              THEN [result |-> Strip(translation), calls |-> attempt + 1]
              ELSE [result |-> None, calls |-> attempt + 1]

\* translate_text without the test of line 358.
translate_text_NoBlankTest(text, svc) == RetryLoop(svc, 0)

\* TextTranslator.translate_text
translate_text(text, svc) ==
    IF ~Truthy(text) \/ ~Truthy(Strip(text))
    THEN [result |-> None, calls |-> 0]
    ELSE RetryLoop(svc, 0)

\* The maxsize of the lru_cache that wraps translate_with_cache.
lru_maxsize == 100

\* The arguments of a call, which the cache uses as its key.
Key(text, source_lang, target_lang) ==
    [text |-> text, source_lang |-> source_lang, target_lang |-> target_lang]

\* CacheIndex finding no entry, whatever the cache holds.
CacheIndex_NeverFound(entries, key) == 0

\* Position of the entry of `key` in the cache entries, 0 when it has none.
RECURSIVE CacheIndex(_, _)
CacheIndex(entries, key) ==
    IF entries = <<>> THEN 0
    ELSE IF entries[Len(entries)].key = key THEN Len(entries)
    ELSE CacheIndex(SubSeq(entries, 1, Len(entries) - 1), key)

\* The entries without the one at position i.
Without(entries, i) ==
    SubSeq(entries, 1, i - 1) \o SubSeq(entries, i + 1, Len(entries))

\* MakeRoom dropping the entry inserted first that is still held, however
\* recently it was used.
MakeRoom_DropsOldestInsertion(entries) ==
    IF Len(entries) >= lru_maxsize
    THEN Without(entries,
                 CHOOSE i \in DOMAIN entries :
                     \A j \in DOMAIN entries : entries[i].inserted <= entries[j].inserted)
    ELSE entries

\* The entries an insertion starts from: a full cache drops its oldest entry
\* (the entries are kept from least to most recently used).
MakeRoom(entries) ==
    IF Len(entries) >= lru_maxsize THEN Tail(entries) ELSE entries

\* Before any call of the translator.
NoTranslation ==
    [entry |-> "none", key |-> Key(Empty, "auto", "es"), result |-> None,
     calls |-> 0, hit |-> FALSE, svc |-> [attempt \in 1..max_retries |-> None]]

\* ------------------------------------------------------------------ Speaker

\* What a synthesis engine can do with one request.
SynthOutcomes == {"ok", "fail"}

\* TextToSpeech.text_to_speech_gtts: the MP3 bytes, or None.
text_to_speech_gtts(text, lang, outcome) ==
    IF ~Truthy(text) \/ ~Truthy(Strip(text)) THEN None
    ELSE IF outcome = "ok" THEN <<"gtts", lang>> \o text
    ELSE None

\* TextToSpeech.text_to_speech_pyttsx3: the WAV bytes, or None.
text_to_speech_pyttsx3(text, lang, outcome) ==
    IF ~Truthy(text) \/ ~Truthy(Strip(text)) THEN None
    ELSE IF outcome = "ok" THEN <<"pyttsx3", lang>> \o text
    ELSE None

\* TextToSpeech.text_to_speech
text_to_speech(text, lang, engine, outcome) ==
    IF engine = "gtts" THEN text_to_speech_gtts(text, lang, outcome)
    ELSE IF engine = "pyttsx3" THEN text_to_speech_pyttsx3(text, lang, outcome)
    ELSE None

\* text_to_speech_call falling back on the other engine when gTTS gives nothing.
text_to_speech_call_Fallback(text, lang, engine, outcomes) ==
    IF engine = "gtts"
    THEN LET audio_data == text_to_speech_gtts(text, lang, outcomes["gtts"]) IN
         IF audio_data # None
         THEN [result |-> audio_data, invoked |-> <<"gtts">>]
         ELSE [result |-> text_to_speech_pyttsx3(text, lang, outcomes["pyttsx3"]),
               invoked |-> <<"gtts", "pyttsx3">>]
    ELSE IF engine = "pyttsx3"
    THEN [result |-> text_to_speech_pyttsx3(text, lang, outcomes["pyttsx3"]),
          invoked |-> <<"pyttsx3">>]
    ELSE [result |-> None, invoked |-> <<>>]

\* TextToSpeech.text_to_speech (lines 162-168), given what either engine would
\* do with the request: the value returned and the engine methods called.
text_to_speech_call(text, lang, engine, outcomes) ==
    IF engine = "gtts"
    THEN [result |-> text_to_speech_gtts(text, lang, outcomes["gtts"]),
          invoked |-> <<"gtts">>]
    ELSE IF engine = "pyttsx3"
    THEN [result |-> text_to_speech_pyttsx3(text, lang, outcomes["pyttsx3"]),
          invoked |-> <<"pyttsx3">>]
    ELSE [result |-> None, invoked |-> <<>>]

\* Before any call of text_to_speech.
NoSynthesis ==
    [entry |-> "none", text |-> Empty, lang |-> "es", engine |-> "gtts",
     outcomes |-> [e \in {"gtts", "pyttsx3"} |-> "fail"],
     result |-> None, invoked |-> <<>>]

\* TextToSpeech.get_audio_base64: the data URL, or None.
get_audio_base64(text, lang, engine, outcome) ==
    LET audio_data == text_to_speech(text, lang, engine, outcome) IN
    IF Truthy(audio_data)
    THEN << IF engine = "pyttsx3" THEN "audio/wav" ELSE "audio/mp3" >> \o audio_data
    ELSE None

\* The text a data URL was synthesized from (after mime, engine and language).
SpokenText(data_url) == SubSeq(data_url, 4, Len(data_url))

\* ------------------------------------------------------------------ SpeechRecognizer

\* _recognize_audio with the Google engine tried before Whisper.
_recognize_audio_GoogleFirst(model_loaded, whisper, google, sphinx) ==
    IF google # Raise
    THEN [result |-> google, invoked |-> <<"google">>]
    ELSE IF model_loaded /\ whisper # Raise
    THEN [result |-> whisper, invoked |-> <<"google", "whisper">>]
    ELSE LET tried == IF model_loaded THEN <<"google", "whisper">> ELSE <<"google">>
         IN  IF sphinx # Raise
             THEN [result |-> sphinx, invoked |-> tried \o <<"sphinx">>]
             ELSE [result |-> None, invoked |-> tried \o <<"sphinx">>]

\* _recognize_audio without the try/except of lines 162-166 around Sphinx.
_recognize_audio_SphinxUnguarded(model_loaded, whisper, google, sphinx) ==
    IF model_loaded /\ whisper # Raise
    THEN [result |-> whisper, invoked |-> <<"whisper">>]
    ELSE LET tried == IF model_loaded THEN <<"whisper">> ELSE <<>> IN
         IF google # Raise
         THEN [result |-> google, invoked |-> tried \o <<"google">>]
         ELSE [result |-> sphinx, invoked |-> tried \o <<"google", "sphinx">>]

\* SpeechRecognizer._recognize_audio, given whether the Whisper model loaded
\* and what each engine does with this audio (it raises, or returns a text):
\* the value returned and the engines invoked, in order.
_recognize_audio(model_loaded, whisper, google, sphinx) ==
    IF model_loaded /\ whisper # Raise
    THEN [result |-> whisper, invoked |-> <<"whisper">>]
    ELSE LET tried == IF model_loaded THEN <<"whisper">> ELSE <<>> IN
         IF google # Raise
         THEN [result |-> google, invoked |-> tried \o <<"google">>]
         ELSE IF sphinx # Raise
         THEN [result |-> sphinx, invoked |-> tried \o <<"google", "sphinx">>]
         ELSE [result |-> None, invoked |-> tried \o <<"google", "sphinx">>]

\* What listening on the microphone does in record_audio.
Captures == {"ok", "timeout", "raises"}

\* SpeechRecognizer.record_audio: no microphone (line 66), the microphone or
\* the listening fails (lines 87-92, 105-111), or the audio is recognized and
\* its text stripped (lines 97-103); whatever is raised inside is caught.
record_audio(device, capture, model_loaded, whisper, google, sphinx) ==
    IF device # "ok" \/ capture # "ok"
    THEN [result |-> None, invoked |-> <<>>]
    ELSE LET r == _recognize_audio(model_loaded, whisper, google, sphinx) IN
         IF r.result = Raise THEN [result |-> None, invoked |-> r.invoked]
         ELSE IF Truthy(r.result)
         THEN [result |-> Strip(r.result), invoked |-> r.invoked]
         ELSE [result |-> None, invoked |-> r.invoked]

\* Before any call of the recognizer.
NoRecognition ==
    [entry |-> "none", device |-> "ok", capture |-> "ok",
     whisper |-> Raise, google |-> Raise, sphinx |-> Raise,
     result |-> None, invoked |-> <<>>]

\* ------------------------------------------------------------------ state

VARIABLES
    is_recording,           \* app.py:37
    auto_translate,         \* app.py:39
    last_recognized_text,   \* app.py:40
    last_translated_text,   \* app.py:41
    last_audio,             \* app.py:42
    whisper_model,          \* speech_recognition.py:27, TRUE when the model loaded
    workers,                \* the _continuous_listening_worker threads, in spawn order
    tasks,                  \* the _process_audio_realtime threads, in spawn order
    clients,                \* per browser client: the toggle handler and its outputs
    play,                   \* the _play_translation handler
    written_by,             \* which utterance stored each last-* field (0: none)
    cache,                  \* translator.py:393, the lru_cache of translate_with_cache
    clock,                  \* the calls of translate_with_cache made so far
    translation,            \* the last call of the translator and what it did
    recognition,            \* the last call of the recognizer and what it did
    synthesis,              \* the last call of text_to_speech and what it did
    lookup                  \* the last look-up in the language catalog

vars ==
    << is_recording, auto_translate, last_recognized_text, last_translated_text,
       last_audio, whisper_model, workers, tasks, clients, play, written_by,
       cache, clock, translation, recognition, synthesis, lookup >>

\* The state of the application object and its threads.
app_vars ==
    << is_recording, auto_translate, last_recognized_text, last_translated_text,
       last_audio, whisper_model, workers, tasks, clients, play, written_by >>

\* The browsers that show the record button.
Clients == {"a", "b"}

Init ==
    /\ is_recording = FALSE
    /\ auto_translate = TRUE
    /\ last_recognized_text = Empty
    /\ last_translated_text = Empty
    /\ last_audio = Empty
    /\ whisper_model \in BOOLEAN
    /\ workers = <<>>
    /\ tasks = <<>>
    /\ clients = [c \in Clients |->
                    [pc |-> "idle", record_btn |-> "start", status_message |-> "ready"]]
    /\ play = [pc |-> "idle", text_to_play |-> Empty, status |-> "ready"]
    /\ written_by = [recognized |-> 0, translated |-> 0, audio |-> 0]
    /\ cache = <<>>
    /\ clock = 0
    /\ translation = NoTranslation
    /\ recognition = NoRecognition
    /\ synthesis = NoSynthesis
    /\ lookup = NoLookup

\* ------------------------------------------------------------------ _toggle_auto_translation

\* Line 454: the handler reads is_recording and takes a branch.
ToggleEnter(c) ==
    /\ clients[c].pc = "idle"
    /\ clients' = [clients EXCEPT ![c].pc = IF ~is_recording THEN "l456" ELSE "l472"]
    /\ UNCHANGED << is_recording, auto_translate, last_recognized_text,
                    last_translated_text, last_audio, whisper_model, workers,
                    tasks, play, written_by,
                    cache, clock, translation, recognition, synthesis, lookup >>

\* Lines 456-468: the start branch, with the checkbox value it was called with.
\* The worker's record keeps that value (started_auto) for the properties.
ToggleStart(c) ==
    /\ clients[c].pc = "l456"
    /\ \E checkbox \in BOOLEAN :
        /\ is_recording' = TRUE
        /\ auto_translate' = checkbox
    /\ workers' = Append(workers, [pc |-> "start",
                                   source_lang |-> default_source_lang,
                                   target_lang |-> default_target_lang,
                                   started_auto |-> auto_translate'])
    /\ clients' = [clients EXCEPT ![c] =
                      [pc |-> "idle", record_btn |-> "stop", status_message |-> "listening"]]
    /\ UNCHANGED << last_recognized_text, last_translated_text, last_audio,
                    whisper_model, tasks, play, written_by,
                    cache, clock, translation, recognition, synthesis, lookup >>

\* Lines 470-474: the stop branch.
ToggleStop(c) ==
    /\ clients[c].pc = "l472"
    /\ is_recording' = FALSE
    /\ clients' = [clients EXCEPT ![c] =
                      [pc |-> "idle", record_btn |-> "start", status_message |-> "stopped"]]
    /\ UNCHANGED << auto_translate, last_recognized_text, last_translated_text,
                    last_audio, whisper_model, workers, tasks, play, written_by,
                    cache, clock, translation, recognition, synthesis, lookup >>

\* ------------------------------------------------------------------ _toggle_auto_mode

\* Lines 476-481, the change handler of the auto-translate checkbox: it
\* returns a status message for the new value and assigns nothing.
ToggleAutoMode(c) ==
    /\ clients[c].pc = "idle"
    /\ \E checkbox \in BOOLEAN :
         clients' = [clients EXCEPT ![c].status_message =
                        IF checkbox THEN "automatic_mode" ELSE "manual_mode"]
    /\ UNCHANGED << is_recording, auto_translate, last_recognized_text,
                    last_translated_text, last_audio, whisper_model, workers,
                    tasks, play, written_by,
                    cache, clock, translation, recognition, synthesis, lookup >>

\* ------------------------------------------------------------------ _continuous_listening_worker

\* What the capture device does when the worker sets up the listener.
Devices == {"ok", "no_microphones", "raises"}

\* Lines 513-554 and the handlers of 564-574: the microphone list is empty
\* (return at 521), or setting up the listener raises (is_recording reset),
\* or the background listener is running.
WorkerSetup(w) ==
    /\ workers[w].pc = "start"
    /\ \E device \in Devices :
        \/ /\ device = "no_microphones"
           /\ workers' = [workers EXCEPT ![w].pc = "no_microphones"]
           /\ UNCHANGED is_recording
        \/ /\ device = "raises"
           /\ workers' = [workers EXCEPT ![w].pc = "raised"]
           /\ is_recording' = FALSE
        \/ /\ device = "ok"
           /\ workers' = [workers EXCEPT ![w].pc = "listening"]
           /\ UNCHANGED is_recording
    /\ UNCHANGED << auto_translate, last_recognized_text, last_translated_text,
                    last_audio, whisper_model, tasks, clients, play, written_by,
                    cache, clock, translation, recognition, synthesis, lookup >>

\* Lines 557-562: the polling loop sees is_recording False and stops the listener.
WorkerStop(w) ==
    /\ workers[w].pc = "listening"
    /\ ~is_recording
    /\ workers' = [workers EXCEPT ![w].pc = "stopped"]
    /\ UNCHANGED << is_recording, auto_translate, last_recognized_text,
                    last_translated_text, last_audio, whisper_model, tasks,
                    clients, play, written_by,
                    cache, clock, translation, recognition, synthesis, lookup >>

\* The processing thread the callback spawns for an utterance of worker w. It
\* keeps, for the properties, the flag its session was started with and the
\* engines it invokes.
NewTask(w) ==
    [pc |-> "l580",
     source_lang |-> workers[w].source_lang,
     target_lang |-> workers[w].target_lang,
     text |-> Empty,
     translated_text |-> Empty,
     audio_base64 |-> Empty,
     outcome |-> "running",
     failed |-> "unknown",
     started_auto |-> workers[w].started_auto,
     engines |-> <<>>]

\* Callback processing the utterance itself: the listener delivers the next
\* one only when the earlier ones have been processed.
Callback_ProcessesInline(w) ==
    /\ workers[w].pc = "listening"
    /\ \A t \in DOMAIN tasks : tasks[t].pc = "done"
    /\ tasks' = Append(tasks, NewTask(w))
    /\ UNCHANGED << is_recording, auto_translate, last_recognized_text,
                    last_translated_text, last_audio, whisper_model, workers,
                    clients, play, written_by,
                    cache, clock, translation, recognition, synthesis, lookup >>

\* Lines 537-549: the listener of worker w hands one captured utterance to the
\* callback, which spawns its processing thread and returns.
Callback(w) ==
    /\ workers[w].pc = "listening"
    /\ tasks' = Append(tasks, NewTask(w))
    /\ UNCHANGED << is_recording, auto_translate, last_recognized_text,
                    last_translated_text, last_audio, whisper_model, workers,
                    clients, play, written_by,
                    cache, clock, translation, recognition, synthesis, lookup >>

\* ------------------------------------------------------------------ _process_audio_realtime

\* What the recognition engine does with one utterance: it raises, or returns a text.
EngineResults == {Raise} \cup RawTexts

\* Lines 584-589: Whisper's text is stripped, Google's is taken as returned.
Transcribed(raw) == IF whisper_model THEN Strip(raw) ELSE raw

\* The thread has returned; its locals are gone.
Finished(task, outcome) ==
    [task EXCEPT !.pc = "done", !.text = Empty, !.translated_text = Empty,
                 !.audio_base64 = Empty, !.outcome = outcome]

\* Processed without the test of line 601: a missing translation is carried on
\* to synthesis and to the stores.
Processed_NoTranslationTest(task, raw, svc, synth) ==
    IF raw = Raise THEN Finished(task, "exception")
    ELSE LET text == Transcribed(raw) IN
         IF ~(Truthy(text) /\ Len(text) > 2) THEN Finished(task, "no_text")
         ELSE IF ~auto_translate THEN Finished(task, "not_translated")
         ELSE LET target_lang_code == _get_language_code(task.target_lang)
                  translated_text == translate_text(text, svc).result
              IN  [task EXCEPT
                     !.pc = "l608",
                     !.text = text,
                     !.translated_text = translated_text,
                     !.audio_base64 =
                         get_audio_base64(translated_text, target_lang_code,
                                          "gtts", synth)]

\* Lines 578-605 of one processing thread, up to the first store: the thread
\* ends without storing (exception, text filtered at 591, auto_translate off at
\* 595, no translation at 601) or holds the three values it is about to store.
Processed(task, raw, svc, synth) ==
    IF raw = Raise THEN Finished(task, "exception")
    ELSE LET text == Transcribed(raw) IN
         IF ~(Truthy(text) /\ Len(text) > 2) THEN Finished(task, "no_text")
         ELSE IF ~auto_translate THEN Finished(task, "not_translated")
         ELSE LET source_lang_code == _get_language_code(task.source_lang)
                  target_lang_code == _get_language_code(task.target_lang)
                  translated_text == translate_text(text, svc).result
              IN  IF ~Truthy(translated_text)
                  THEN Finished(task, "translation_failed")
                  ELSE [task EXCEPT
                          !.pc = "l608",
                          !.text = text,
                          !.translated_text = translated_text,
                          !.audio_base64 =
                              get_audio_base64(translated_text, target_lang_code,
                                               "gtts", synth)]

\* The stage at which the collaborators fail this utterance, from their answers
\* alone: the engine raises or yields no text, the translator yields no
\* translation for the text, the synthesizer fails. Kept with the thread as a
\* record of what it was given, whatever the thread then does with it.
StageFailure(raw, svc, synth) ==
    IF raw = Raise \/ ~Truthy(Transcribed(raw)) THEN "transcription"
    ELSE IF ~Truthy(translate_text(Transcribed(raw), svc).result) THEN "translation"
    ELSE IF synth # "ok" THEN "synthesis"
    ELSE "none"

\* RecordingAfterProcessing with the exception handler of line 615 resetting
\* the flag, as the handlers of the listening worker do.
RecordingAfterProcessing_ResetOnError(task) ==
    IF task.outcome = "exception" THEN FALSE ELSE is_recording

\* is_recording after a step of a processing thread: no line of
\* _process_audio_realtime assigns it.
RecordingAfterProcessing(task) == is_recording

\* Lines 584-589: the engine the thread invokes for its utterance, Whisper when
\* the model is loaded and Google otherwise.
PipelineEngines == IF whisper_model THEN <<"whisper">> ELSE <<"google">>

Process(t) ==
    /\ tasks[t].pc = "l580"
    /\ \E raw \in EngineResults, svc \in ServiceBehaviours, synth \in SynthOutcomes :
         tasks' = [tasks EXCEPT ![t] =
                     [Processed(tasks[t], raw, svc, synth)
                        EXCEPT !.failed = StageFailure(raw, svc, synth),
                               !.engines = PipelineEngines]]
    /\ is_recording' = RecordingAfterProcessing(tasks'[t])
    /\ UNCHANGED << auto_translate, last_recognized_text, last_translated_text,
                    last_audio, whisper_model, workers, clients, play, written_by,
                    cache, clock, translation, recognition, synthesis, lookup >>

\* Line 608.
StoreRecognized(t) ==
    /\ tasks[t].pc = "l608"
    /\ last_recognized_text' = tasks[t].text
    /\ written_by' = [written_by EXCEPT !.recognized = t]
    /\ tasks' = [tasks EXCEPT ![t].pc = "l609", ![t].text = Empty]
    /\ is_recording' = RecordingAfterProcessing(tasks'[t])
    /\ UNCHANGED << auto_translate, last_translated_text, last_audio,
                    whisper_model, workers, clients, play,
                    cache, clock, translation, recognition, synthesis, lookup >>

\* Line 609.
StoreTranslated(t) ==
    /\ tasks[t].pc = "l609"
    /\ last_translated_text' = tasks[t].translated_text
    /\ written_by' = [written_by EXCEPT !.translated = t]
    /\ tasks' = [tasks EXCEPT ![t].pc = "l610", ![t].translated_text = Empty]
    /\ is_recording' = RecordingAfterProcessing(tasks'[t])
    /\ UNCHANGED << auto_translate, last_recognized_text, last_audio,
                    whisper_model, workers, clients, play,
                    cache, clock, translation, recognition, synthesis, lookup >>

\* Line 610; then the thread returns.
StoreAudio(t) ==
    /\ tasks[t].pc = "l610"
    /\ last_audio' = tasks[t].audio_base64
    /\ written_by' = [written_by EXCEPT !.audio = t]
    /\ tasks' = [tasks EXCEPT ![t] =
                   Finished(tasks[t],
                            IF Truthy(tasks[t].audio_base64)
                            THEN "stored" ELSE "stored_without_audio")]
    /\ is_recording' = RecordingAfterProcessing(tasks'[t])
    /\ UNCHANGED << auto_translate, last_recognized_text, last_translated_text,
                    whisper_model, workers, clients, play,
                    cache, clock, translation, recognition, synthesis, lookup >>

\* ------------------------------------------------------------------ _play_translation

\* The translated_text argument: the (empty) translation box, or a text a caller supplies.
PlayTexts == { Empty, <<"h", "i">> }

\* The tts_engine argument after line 638.
Engines == {"gtts", "pyttsx3"}

\* Lines 646-661: synthesize text_to_play and report.
Generated(text_to_play, engine, synth) ==
    LET target_lang_code == _get_language_code(default_target_lang)
        audio_base64 == get_audio_base64(text_to_play, target_lang_code, engine, synth)
    IN  [pc |-> "idle", text_to_play |-> Empty,
         status |-> IF Truthy(audio_base64) THEN "playing" ELSE "error"]

\* Lines 631-634: pick the text, give up when there is none.
PlayEnter ==
    /\ play.pc = "idle"
    /\ \E translated_text \in PlayTexts :
         LET text_to_play == IF Truthy(translated_text)
                             THEN translated_text ELSE last_translated_text
         IN  play' = IF ~Truthy(text_to_play) \/ Strip(text_to_play) = Empty
                     THEN [pc |-> "idle", text_to_play |-> Empty, status |-> "no_text"]
                     ELSE [pc |-> "l641", text_to_play |-> text_to_play,
                           status |-> "running"]
    /\ UNCHANGED << is_recording, auto_translate, last_recognized_text,
                    last_translated_text, last_audio, whisper_model, workers,
                    tasks, clients, written_by,
                    cache, clock, translation, recognition, synthesis, lookup >>

\* Line 641, left operand: self.last_audio.
PlayTestAudio ==
    /\ play.pc = "l641"
    /\ \E engine \in Engines, synth \in SynthOutcomes :
         play' = IF Truthy(last_audio)
                 THEN [play EXCEPT !.pc = "l641b"]
                 ELSE Generated(play.text_to_play, engine, synth)
    /\ UNCHANGED << is_recording, auto_translate, last_recognized_text,
                    last_translated_text, last_audio, whisper_model, workers,
                    tasks, clients, written_by,
                    cache, clock, translation, recognition, synthesis, lookup >>

\* Line 641, right operand: self.last_translated_text == text_to_play.
PlayTestText ==
    /\ play.pc = "l641b"
    /\ \E engine \in Engines, synth \in SynthOutcomes :
         play' = IF last_translated_text = play.text_to_play
                 THEN [play EXCEPT !.pc = "l642"]
                 ELSE Generated(play.text_to_play, engine, synth)
    /\ UNCHANGED << is_recording, auto_translate, last_recognized_text,
                    last_translated_text, last_audio, whisper_model, workers,
                    tasks, clients, written_by,
                    cache, clock, translation, recognition, synthesis, lookup >>

\* Lines 642 and 648-661: take the stored audio and report.
PlayReuse ==
    /\ play.pc = "l642"
    /\ play' = [pc |-> "idle", text_to_play |-> Empty,
                status |-> IF Truthy(last_audio) THEN "playing" ELSE "error"]
    /\ UNCHANGED << is_recording, auto_translate, last_recognized_text,
                    last_translated_text, last_audio, whisper_model, workers,
                    tasks, clients, written_by,
                    cache, clock, translation, recognition, synthesis, lookup >>

\* ------------------------------------------------------------------ TextTranslator

\* A call of translate_text (lines 346-391) against a backing service that
\* behaves as svc.
TranslateText(text, source_lang, target_lang, svc) ==
    /\ LET r == translate_text(text, svc) IN
        translation' = [entry |-> "translate_text",
                        key |-> Key(text, source_lang, target_lang),
                        result |-> r.result, calls |-> r.calls,
                        hit |-> FALSE, svc |-> svc]
    /\ UNCHANGED << cache, clock, recognition, synthesis, lookup >>
    /\ UNCHANGED app_vars

\* A call of translate_with_cache (lines 393-406): the wrapper answers from its
\* entry for these arguments and makes it the most recent one, or runs
\* translate_text and keeps whatever it returns. Each entry records the calls
\* that inserted it and last used it.
TranslateWithCache(text, source_lang, target_lang, svc) ==
    /\ LET key == Key(text, source_lang, target_lang)
           i == CacheIndex(cache, key)
           r == translate_text(text, svc)
       IN  IF i # 0
           THEN /\ cache' = Append(Without(cache, i),
                                   [cache[i] EXCEPT !.used = clock + 1])
                /\ translation' = [entry |-> "translate_with_cache", key |-> key,
                                   result |-> cache[i].value, calls |-> 0,
                                   hit |-> TRUE, svc |-> svc]
           ELSE /\ cache' = Append(MakeRoom(cache),
                                   [key |-> key, value |-> r.result,
                                    inserted |-> clock + 1, used |-> clock + 1])
                /\ translation' = [entry |-> "translate_with_cache", key |-> key,
                                   result |-> r.result, calls |-> r.calls,
                                   hit |-> FALSE, svc |-> svc]
    /\ clock' = clock + 1
    /\ UNCHANGED << recognition, synthesis, lookup >>
    /\ UNCHANGED app_vars

\* ------------------------------------------------------------------ SpeechRecognizer calls

\* A call of _recognize_audio (lines 126-169) with engines that behave as given.
RecognizeAudio(whisper, google, sphinx) ==
    /\ LET r == _recognize_audio(whisper_model, whisper, google, sphinx) IN
        recognition' = [entry |-> "_recognize_audio", device |-> "ok",
                        capture |-> "ok", whisper |-> whisper, google |-> google,
                        sphinx |-> sphinx, result |-> r.result,
                        invoked |-> r.invoked]
    /\ UNCHANGED << cache, clock, translation, synthesis, lookup >>
    /\ UNCHANGED app_vars

\* A call of record_audio (lines 50-111).
RecordAudio(device, capture, whisper, google, sphinx) ==
    /\ LET r == record_audio(device, capture, whisper_model, whisper, google, sphinx) IN
        recognition' = [entry |-> "record_audio", device |-> device,
                        capture |-> capture, whisper |-> whisper, google |-> google,
                        sphinx |-> sphinx, result |-> r.result,
                        invoked |-> r.invoked]
    /\ UNCHANGED << cache, clock, translation, synthesis, lookup >>
    /\ UNCHANGED app_vars

\* ------------------------------------------------------------------ TextToSpeech calls

\* A call of text_to_speech (lines 149-168) with engines that behave as given.
Synthesize(text, lang, engine, outcomes) ==
    /\ LET r == text_to_speech_call(text, lang, engine, outcomes) IN
        synthesis' = [entry |-> "text_to_speech", text |-> text, lang |-> lang,
                      engine |-> engine, outcomes |-> outcomes,
                      result |-> r.result, invoked |-> r.invoked]
    /\ UNCHANGED << cache, clock, translation, recognition, lookup >>
    /\ UNCHANGED app_vars

\* ------------------------------------------------------------------ LanguageCatalog look-ups

\* A catalog code is turned into its display name (get_language_name) and the
\* name back into a code (_get_language_code).
RoundTrip(lang_code) ==
    /\ LET language_name == get_language_name(lang_code) IN
        lookup' = [entry |-> "round_trip", input |-> lang_code,
                   name |-> language_name,
                   result |-> _get_language_code(language_name)]
    /\ UNCHANGED << cache, clock, translation, recognition, synthesis >>
    /\ UNCHANGED app_vars

\* A call of _get_language_code (app.py:435-441) with any string.
CodeFor(language_name) ==
    /\ lookup' = [entry |-> "_get_language_code", input |-> language_name,
                  name |-> language_name,
                  result |-> _get_language_code(language_name)]
    /\ UNCHANGED << cache, clock, translation, recognition, synthesis >>
    /\ UNCHANGED app_vars

\* ------------------------------------------------------------------ specifications

\* Start branches that have passed the test of line 454 and not yet spawned.
StartsInFlight == Cardinality({c \in Clients : clients[c].pc = "l456"})

\* A press of the record button is explored while it cannot lead to more than
\* `sessions` workers.
MayPress(sessions) == is_recording \/ Len(workers) + StartsInFlight < sessions

\* A capture is explored while fewer than `utterances` have been captured.
MayCapture(utterances) == Len(tasks) < utterances

\* One browser drives one session, in which one utterance is captured.
Next ==
    \/ MayPress(MaxSessions) /\ ToggleEnter("a")
    \/ ToggleStart("a")
    \/ ToggleStop("a")
    \/ \E w \in DOMAIN workers : WorkerSetup(w)
    \/ \E w \in DOMAIN workers : WorkerStop(w)
    \/ MayCapture(MaxUtterances) /\ \E w \in DOMAIN workers : Callback(w)
    \/ \E t \in DOMAIN tasks : Process(t)
    \/ \E t \in DOMAIN tasks : StoreRecognized(t)
    \/ \E t \in DOMAIN tasks : StoreTranslated(t)
    \/ \E t \in DOMAIN tasks : StoreAudio(t)

Spec == Init /\ [][Next]_vars

\* One browser drives one session, in which utterances follow each other
\* closely enough for their processing threads to overlap.
NextRace ==
    \/ MayPress(MaxSessions) /\ ToggleEnter("a")
    \/ ToggleStart("a")
    \/ ToggleStop("a")
    \/ \E w \in DOMAIN workers : WorkerSetup(w)
    \/ \E w \in DOMAIN workers : WorkerStop(w)
    \/ MayCapture(MaxOverlap) /\ \E w \in DOMAIN workers : Callback(w)
    \/ \E t \in DOMAIN tasks : Process(t)
    \/ \E t \in DOMAIN tasks : StoreRecognized(t)
    \/ \E t \in DOMAIN tasks : StoreTranslated(t)
    \/ \E t \in DOMAIN tasks : StoreAudio(t)

SpecRace == Init /\ [][NextRace]_vars

\* One browser starts a session and never presses stop, and utterances follow
\* each other closely enough for their processing threads to overlap.
NextCapture ==
    \/ ~is_recording /\ MayPress(MaxSessions) /\ ToggleEnter("a")
    \/ ToggleStart("a")
    \/ \E w \in DOMAIN workers : WorkerSetup(w)
    \/ MayCapture(MaxOverlap) /\ \E w \in DOMAIN workers : Callback(w)
    \/ \E t \in DOMAIN tasks : Process(t)
    \/ \E t \in DOMAIN tasks : StoreRecognized(t)
    \/ \E t \in DOMAIN tasks : StoreTranslated(t)
    \/ \E t \in DOMAIN tasks : StoreAudio(t)

SpecCapture == Init /\ [][NextCapture]_vars

\* As SpecRace, and translations are played back meanwhile.
NextPlay ==
    \/ NextRace
    \/ PlayEnter
    \/ PlayTestAudio
    \/ PlayTestText
    \/ PlayReuse

SpecPlay == Init /\ [][NextPlay]_vars

\* Two browsers share the application object and stop and start sessions;
\* nobody speaks.
NextClients ==
    \/ \E c \in Clients : MayPress(MaxRestarts) /\ ToggleEnter(c)
    \/ \E c \in Clients : ToggleStart(c)
    \/ \E c \in Clients : ToggleStop(c)
    \/ \E w \in DOMAIN workers : WorkerSetup(w)
    \/ \E w \in DOMAIN workers : WorkerStop(w)

SpecClients == Init /\ [][NextClients]_vars

\* One browser stops and starts sessions and changes the auto-translate
\* checkbox, and one utterance is captured.
NextRestart ==
    \/ MayPress(MaxRestarts) /\ ToggleEnter("a")
    \/ ToggleStart("a")
    \/ ToggleStop("a")
    \/ ToggleAutoMode("a")
    \/ \E w \in DOMAIN workers : WorkerSetup(w)
    \/ \E w \in DOMAIN workers : WorkerStop(w)
    \/ MayCapture(MaxUtterances) /\ \E w \in DOMAIN workers : Callback(w)
    \/ \E t \in DOMAIN tasks : Process(t)
    \/ \E t \in DOMAIN tasks : StoreRecognized(t)
    \/ \E t \in DOMAIN tasks : StoreTranslated(t)
    \/ \E t \in DOMAIN tasks : StoreAudio(t)

SpecRestart == Init /\ [][NextRestart]_vars

\* The workers a run of SpecClients can spawn.
WorkerIds == 1..MaxRestarts

\* Fair scheduling: a handler that has entered a branch completes it, and every
\* worker thread keeps running (it sets up its listener, and its polling loop
\* of lines 557-558 wakes every 0.1 s and leaves when it then reads
\* is_recording False). Button presses are the users' choice and are not forced.
FairScheduling ==
    /\ \A c \in Clients : WF_vars(ToggleStart(c)) /\ WF_vars(ToggleStop(c))
    /\ \A w \in WorkerIds : WF_vars(w \in DOMAIN workers /\ WorkerSetup(w))
    /\ \A w \in WorkerIds : WF_vars(w \in DOMAIN workers /\ WorkerStop(w))

\* SpecClients under fair scheduling.
SpecLive == Init /\ [][NextClients]_vars /\ FairScheduling

\* The texts the translator is called with.
TranslateTexts ==
    { <<>>,
      <<" ">>,
      <<" ", "a", " ">>,
      <<"h", "o", "l", "a">> }

\* The (source, target) codes the translator is called with; 'auto' and 'es'
\* are the defaults of the two parameters.
LangPairs == { <<"auto", "es">>, <<"es", "en">> }

\* translate_text is called with any text and codes, against any service.
NextTranslator ==
    \E text \in TranslateTexts, pair \in LangPairs, svc \in ServiceBehaviours :
        TranslateText(text, pair[1], pair[2], svc)

SpecTranslator == Init /\ [][NextTranslator]_vars

\* The backing service during a run of SpecCache: it answers at once with a
\* text or with nothing, or raises on every attempt.
CacheServiceBehaviours ==
    { [attempt \in 1..max_retries |-> IF attempt <= k THEN Raise ELSE r] :
        k \in {0, max_retries}, r \in {None, <<"y", "o">>} }

\* translate_with_cache is called a few times with a few keys.
NextCache ==
    \E text \in TranslateTexts, pair \in LangPairs, svc \in CacheServiceBehaviours :
        /\ clock < MaxCalls
        /\ TranslateWithCache(text, pair[1], pair[2], svc)

SpecCache == Init /\ [][NextCache]_vars

DigitChars == << "0", "1", "2", "3", "4", "5", "6", "7", "8", "9" >>

\* The decimal numeral of n, as a text.
RECURSIVE Numeral(_)
Numeral(n) ==
    IF n < 10 THEN << DigitChars[n + 1] >>
    ELSE Numeral(n \div 10) \o << DigitChars[(n % 10) + 1] >>

\* A backing service that answers at once.
Answering(text) == [attempt \in 1..max_retries |-> text]

\* translate_with_cache is called with a text never seen before until the
\* cache is full and beyond; once it is full, the least and the most recently
\* used texts are also asked for again.
NextCacheFill ==
    \/ /\ clock < lru_maxsize + MaxEvictions
       /\ TranslateWithCache(Numeral(clock + 1), "es", "en", Answering(<<"y", "o">>))
    \/ /\ clock < lru_maxsize + MaxEvictions
       /\ Len(cache) = lru_maxsize
       /\ \E i \in {1, Len(cache)} :
            TranslateWithCache(cache[i].key.text, "es", "en", Answering(<<"y", "o">>))

SpecCacheFill == Init /\ [][NextCacheFill]_vars

\* The recognizer is called with engines that raise or answer in every
\* combination, with and without a microphone.
NextRecognizer ==
    \/ \E whisper \in EngineResults, google \in EngineResults, sphinx \in EngineResults :
          RecognizeAudio(whisper, google, sphinx)
    \/ \E device \in Devices, capture \in Captures, whisper \in EngineResults,
          google \in EngineResults, sphinx \in EngineResults :
          RecordAudio(device, capture, whisper, google, sphinx)

SpecRecognizer == Init /\ [][NextRecognizer]_vars

\* The texts text_to_speech is called with.
SynthTexts == { Empty, <<" ">>, <<"h", "i">> }

\* The engine argument: the two engines, and a name that is neither.
EngineNames == Engines \cup {"espeak"}

\* text_to_speech is called with any text, language and engine name, and
\* either engine may work or fail.
NextSpeaker ==
    \E text \in SynthTexts, lang \in {"es", "en"}, engine \in EngineNames,
       outcomes \in [Engines -> SynthOutcomes] :
        Synthesize(text, lang, engine, outcomes)

SpecSpeaker == Init /\ [][NextSpeaker]_vars

\* Strings that are no display name of the catalog: the empty string, a
\* language it lacks, a code, a name in another case.
OtherNames == { "", "Klingon", "es", "english" }

\* Every code of the catalog is taken through the round trip, and
\* _get_language_code is called with every name and with other strings.
NextCatalog ==
    \/ \E lang_code \in Codes : RoundTrip(lang_code)
    \/ \E language_name \in Names \cup OtherNames : CodeFor(language_name)

SpecCatalog == Init /\ [][NextCatalog]_vars

\* ------------------------------------------------------------------ properties

\* The published triple.
LastFields == << last_recognized_text, last_translated_text, last_audio >>

\* Processing thread t takes this step.
StepOf(t) == tasks'[t] # tasks[t]

\* Every dispatched processing thread has returned.
Quiescent == \A t \in DOMAIN tasks : tasks[t].pc = "done"

\* C1: at every moment, the recognized text and the translated text a reader
\* finds were stored by the same utterance (once both have been stored at all).
C1_NoMixedPair ==
    (written_by.recognized # 0 /\ written_by.translated # 0)
        => written_by.recognized = written_by.translated

\* C2: once every dispatched thread has returned and two or more of them
\* succeeded (none stored a missing audio), the three fields were stored by one
\* and the same utterance.
C2_LastWriterWins ==
    ( /\ Quiescent
      /\ \A t \in DOMAIN tasks : tasks[t].outcome # "stored_without_audio"
      /\ Cardinality({t \in DOMAIN tasks : tasks[t].outcome = "stored"}) >= 2 )
        => /\ written_by.recognized = written_by.translated
           /\ written_by.translated = written_by.audio

\* C3: when _play_translation takes the stored audio (line 642) for the text it
\* is to play, that audio was synthesized from this text.
C3_ReusedAudioMatchesText ==
    [][ (play.pc = "l642" /\ play'.pc = "idle" /\ Truthy(last_audio))
            => SpokenText(last_audio) = play.text_to_play ]_vars

\* C4: while the session is Idle (is_recording False), no step modifies
\* last_recognized_text, last_translated_text or last_audio.
C4_IdleDiscardsResults ==
    [][ ~is_recording => UNCHANGED LastFields ]_vars

\* C5: no step of a thread whose synthesis failed (after transcription and
\* translation succeeded) changes any of the three fields.
C5_SynthesisFailureDiscards ==
    [][ \A t \in DOMAIN tasks :
            (StepOf(t) /\ tasks'[t].failed = "synthesis") => UNCHANGED LastFields ]_vars

\* C6: no step of a thread whose transcription raised or yielded no text, or
\* whose translation failed, changes any of the three fields.
C6_FailedUtteranceLeavesFields ==
    [][ \A t \in DOMAIN tasks :
            (StepOf(t) /\ tasks'[t].failed \in {"transcription", "translation"})
                => UNCHANGED LastFields ]_vars

\* An utterance was recognized, its translation failed, and its thread has
\* returned.
C6_Witness ==
    \E t \in DOMAIN tasks :
        /\ tasks[t].pc = "done"
        /\ tasks[t].failed = "translation"
        /\ tasks[t].outcome = "translation_failed"

\* C7: no step of a processing thread, whatever its outcome, changes
\* is_recording or the state of a listening worker.
C7_ProcessingKeepsListening ==
    [][ \A t \in DOMAIN tasks :
            StepOf(t) => (is_recording' = is_recording /\ workers' = workers) ]_vars

\* A thread ended in the exception handler of line 615 and the session is still
\* Listening with its background listener running.
C7_Witness ==
    /\ is_recording
    /\ \E w \in DOMAIN workers : workers[w].pc = "listening"
    /\ \E t \in DOMAIN tasks : tasks[t].outcome = "exception"

\* C8: when the most recent start found the capture device unavailable (no
\* microphone listed, or setting up the listener raised), the session is Idle.
C8_FailedStartLeavesIdle ==
    (workers # <<>> /\ workers[Len(workers)].pc \in {"no_microphones", "raised"})
        => ~is_recording

\* C9: a press of the button that shows the start label, arriving while the
\* session is Listening, leaves is_recording True and the workers as they are.
C9_StartWhileListeningRejected ==
    [][ \A c \in Clients :
            ( /\ clients[c].record_btn = "start"
              /\ clients[c].pc = "l472"
              /\ clients'[c].pc = "idle"
              /\ is_recording )
                => (is_recording' /\ workers' = workers) ]_vars

\* C10: a press of the button that shows the stop label, arriving while the
\* session is Idle, leaves is_recording False, creates no worker and leaves the
\* three fields as they are.
C10_StopWhileIdleIsNoOp ==
    [][ \A c \in Clients :
            ( /\ clients[c].record_btn = "stop"
              /\ clients[c].pc = "l456"
              /\ clients'[c].pc = "idle" )
                => (~is_recording' /\ workers' = workers /\ UNCHANGED LastFields) ]_vars

\* C11: a listening loop that is running when the session has been stopped
\* (is_recording False) eventually leaves its polling loop and stops its
\* background listener, whatever presses of the button follow.
C11_StoppedLoopExits ==
    \A w \in WorkerIds :
        (w \in DOMAIN workers /\ workers[w].pc = "listening" /\ ~is_recording)
            ~> (w \in DOMAIN workers /\ workers[w].pc = "stopped")

\* C12: when the stop branch completes, last_recognized_text,
\* last_translated_text and last_audio hold their empty initial values.
C12_StopClearsFields ==
    [][ \A c \in Clients :
            (clients[c].pc = "l472" /\ clients'[c].pc = "idle")
                => LastFields' = << Empty, Empty, Empty >> ]_vars

\* The last call was translate_text, with a text that is not blank.
TranslatedNonBlank ==
    /\ translation.entry = "translate_text"
    /\ Truthy(Strip(translation.key.text))

\* The service raises on exactly the first K attempts of the last call.
RaisesFirst(K) ==
    /\ \A attempt \in 1..K : translation.svc[attempt] = Raise
    /\ K < max_retries => translation.svc[K + 1] # Raise

\* C13: when the service raises on exactly K < max_retries attempts of a
\* translate_text call and then returns a non-empty translation, the call
\* returns that translation stripped and has invoked the service K+1 times.
C13_RetryThenSuccess ==
    \A K \in 0..(max_retries - 1) :
        (TranslatedNonBlank /\ RaisesFirst(K) /\ Truthy(translation.svc[K + 1]))
            => /\ translation.result = Strip(translation.svc[K + 1])
               /\ translation.calls = K + 1

\* The service raised twice and then answered; the call returned the answer
\* without its leading blank.
C13_Witness ==
    /\ TranslatedNonBlank
    /\ RaisesFirst(2)
    /\ translation.svc[3] = <<" ", "h", "i">>
    /\ translation.result = <<"h", "i">>

\* C14: when the service raises on every attempt of a translate_text call, the
\* call returns None and has invoked the service exactly max_retries times.
C14_AllAttemptsFail ==
    (TranslatedNonBlank /\ RaisesFirst(max_retries))
        => /\ translation.result = None
           /\ translation.calls = max_retries

\* The service raised on every attempt of a call with the text "hola".
C14_Witness ==
    /\ TranslatedNonBlank
    /\ RaisesFirst(max_retries)
    /\ translation.key.text = <<"h", "o", "l", "a">>
    /\ translation.calls = 3

\* The service invocations of the call that this step makes.
CallMade == clock' = clock + 1

\* C15: a call of translate_with_cache whose key has an entry holding a
\* translation invokes the service zero times and returns the entry's string;
\* so a call that repeats the previous, successful one invokes nothing.
C15_CacheHit ==
    [][ CallMade =>
          /\ \A i \in DOMAIN cache :
                (cache[i].key = translation'.key /\ Truthy(cache[i].value))
                    => /\ translation'.calls = 0
                       /\ translation'.result = cache[i].value
          /\ ( /\ translation.entry = "translate_with_cache"
               /\ translation.key = translation'.key
               /\ Truthy(translation.result) )
                    => /\ translation'.calls = 0
                       /\ translation'.result = translation.result ]_vars

\* "hola" was translated through the cache, and the call just made was
\* answered from its entry.
C15_Witness ==
    /\ translation.entry = "translate_with_cache"
    /\ translation.hit
    /\ translation.key.text = <<"h", "o", "l", "a">>
    /\ translation.result = <<"y", "o">>
    /\ translation.calls = 0

\* C16: the cache holds no entry for a (non-blank) text whose translation
\* failed.
C16_OnlySuccessesCached ==
    \A i \in DOMAIN cache :
        Truthy(Strip(cache[i].key.text)) => cache[i].value # None

\* C17: a call of translate_with_cache with an empty or blank text returns
\* None, invokes the service zero times and leaves the cache the size it was.
C17_BlankTextLeavesCache ==
    [][ (CallMade /\ ~Truthy(Strip(translation'.key.text)))
            => /\ translation'.result = None
               /\ translation'.calls = 0
               /\ Len(cache') = Len(cache) ]_vars

\* C18: a call of translate_text with an empty or blank text returns None and
\* invokes the service zero times, whatever the codes and the service.
C18_BlankTextNoCall ==
    (translation.entry = "translate_text" /\ ~Truthy(Strip(translation.key.text)))
        => /\ translation.result = None
           /\ translation.calls = 0

\* translate_text was called with a blank text, against a service that would
\* have answered.
C18_Witness ==
    /\ translation.entry = "translate_text"
    /\ translation.key.text = <<" ">>
    /\ translation.svc[1] = <<"y", "o">>

\* The keys the cache holds.
CachedKeys(entries) == { entries[i].key : i \in DOMAIN entries }

\* The entry used longest ago.
LeastRecentlyUsed(entries) ==
    CHOOSE i \in DOMAIN entries :
        \A j \in DOMAIN entries : entries[i].used <= entries[j].used

\* C19: the cache never holds more than lru_maxsize (100) entries, and a call
\* that inserts into a full cache removes exactly the least recently used entry.
C19_BoundedLRU ==
    [][ /\ Len(cache') <= lru_maxsize
        /\ (CallMade /\ Len(cache) = lru_maxsize /\ ~translation'.hit)
              => CachedKeys(cache') =
                    (CachedKeys(cache) \ {cache[LeastRecentlyUsed(cache)].key})
                        \cup {translation'.key} ]_vars

\* The cache is full, more keys than it holds have been inserted, and the
\* first key, asked for again when the cache was full, is still held while
\* the second is gone.
C19_Witness ==
    /\ Len(cache) = lru_maxsize
    /\ clock > lru_maxsize
    /\ ~translation.hit
    /\ Key(Numeral(1), "es", "en") \in CachedKeys(cache)
    /\ Key(Numeral(2), "es", "en") \notin CachedKeys(cache)

\* C20: a processing thread that has been through translate_text and goes on
\* to store (line 608) holds a recognized text of more than 2 characters after
\* stripping; a shorter one never gets that far.
C20_ShortTextNeverTranslated ==
    [][ \A t \in DOMAIN tasks :
            (tasks[t].pc = "l580" /\ tasks'[t].pc = "l608")
                => Len(Strip(tasks'[t].text)) > 2 ]_vars

\* The engines the last recognizer call invoked.
Invoked == { recognition.invoked[i] : i \in DOMAIN recognition.invoked }

\* The place of an engine in the order Whisper, Google, Sphinx.
EngineRank(engine) ==
    CASE engine = "whisper" -> 1 [] engine = "google" -> 2 [] engine = "sphinx" -> 3

\* What an engine did (or would have done) in the last recognizer call.
EngineAnswer(engine) ==
    CASE engine = "whisper" -> recognition.whisper
      [] engine = "google" -> recognition.google
      [] engine = "sphinx" -> recognition.sphinx

\* C21: _recognize_audio invokes Whisper exactly when the model is loaded,
\* Google exactly when Whisper was skipped or raised, Sphinx exactly when
\* Google was invoked and raised, in that order; it returns the text of the
\* last engine it invoked when that one answered, and None otherwise.
C21_EngineOrder ==
    recognition.entry = "_recognize_audio" =>
        /\ "whisper" \in Invoked <=> whisper_model
        /\ "google" \in Invoked <=> (~whisper_model \/ recognition.whisper = Raise)
        /\ "sphinx" \in Invoked <=> ("google" \in Invoked /\ recognition.google = Raise)
        /\ \A i, j \in DOMAIN recognition.invoked :
              i < j => EngineRank(recognition.invoked[i]) < EngineRank(recognition.invoked[j])
        /\ \A i \in DOMAIN recognition.invoked :
              i < Len(recognition.invoked) => EngineAnswer(recognition.invoked[i]) = Raise
        /\ LET last == recognition.invoked[Len(recognition.invoked)] IN
            recognition.result =
                IF EngineAnswer(last) # Raise THEN EngineAnswer(last) ELSE None

\* Whisper was loaded and raised, Google answered "hola", and Sphinx, which
\* would have answered too, was not invoked.
C21_Witness ==
    /\ recognition.entry = "_recognize_audio"
    /\ whisper_model
    /\ recognition.whisper = Raise
    /\ recognition.google = <<"h", "o", "l", "a">>
    /\ recognition.sphinx = <<" ", "a", " ">>
    /\ recognition.invoked = <<"whisper", "google">>
    /\ recognition.result = <<"h", "o", "l", "a">>

\* C22: a call of _recognize_audio or of record_audio never ends in an
\* exception, and returns None when every engine it can invoke raises.
C22_AllEnginesFail ==
    /\ recognition.result # Raise
    /\ ( /\ recognition.entry # "none"
         /\ whisper_model => recognition.whisper = Raise
         /\ recognition.google = Raise
         /\ recognition.sphinx = Raise )
            => recognition.result = None

\* _recognize_audio invoked the three engines, each raised, and it returned None.
C22_Witness ==
    /\ recognition.entry = "_recognize_audio"
    /\ recognition.invoked = <<"whisper", "google", "sphinx">>
    /\ recognition.whisper = Raise
    /\ recognition.google = Raise
    /\ recognition.sphinx = Raise
    /\ recognition.result = None

\* C23: a call of text_to_speech calls at most one engine, the one its engine
\* argument names; when that engine fails the call returns None, and a name
\* that is neither engine calls none and returns None.
C23_OneEnginePerCall ==
    synthesis.entry = "text_to_speech" =>
        /\ Len(synthesis.invoked) <= 1
        /\ \A i \in DOMAIN synthesis.invoked : synthesis.invoked[i] = synthesis.engine
        /\ synthesis.engine \notin Engines
              => (synthesis.invoked = <<>> /\ synthesis.result = None)
        /\ (synthesis.engine \in Engines /\ synthesis.outcomes[synthesis.engine] = "fail")
              => synthesis.result = None

\* gTTS was selected and failed on "hi"; pyttsx3, which would have worked, was
\* not called and the call returned None.
C23_Witness ==
    /\ synthesis.entry = "text_to_speech"
    /\ synthesis.text = <<"h", "i">>
    /\ synthesis.engine = "gtts"
    /\ synthesis.outcomes["gtts"] = "fail"
    /\ synthesis.outcomes["pyttsx3"] = "ok"
    /\ synthesis.invoked = <<"gtts">>
    /\ synthesis.result = None

\* C24: the round trip of a catalog code through its display name gives the
\* code back.
C24_RoundTrip ==
    lookup.entry = "round_trip" => lookup.result = lookup.input

\* C25: _get_language_code returns a code of the catalog for every string; for
\* a display name it returns a code with that name, and for any other string
\* the fallback 'es'.
C25_TotalWithFallback ==
    lookup.entry = "_get_language_code" =>
        /\ lookup.result \in Codes
        /\ lookup.input \in Names => get_language_name(lookup.result) = lookup.input
        /\ lookup.input \notin Names => lookup.result = "es"

\* _get_language_code was asked for a language the catalog lacks and answered 'es'.
C25_Witness ==
    /\ lookup.entry = "_get_language_code"
    /\ lookup.input = "Klingon"
    /\ lookup.result = "es"

\* C26: at most one listening worker has an active background listener.
C26_OneActiveListener ==
    Cardinality({ w \in DOMAIN workers : workers[w].pc = "listening" }) <= 1

\* C27: when the Whisper model is loaded and transcription of an utterance
\* raised, the Google engine was invoked for that utterance before it was
\* given up.
C27_PipelineFallsThrough ==
    \A t \in DOMAIN tasks :
        ( /\ whisper_model
          /\ tasks[t].pc = "done"
          /\ tasks[t].outcome = "exception" )
            => \E i \in DOMAIN tasks[t].engines : tasks[t].engines[i] = "google"

\* C28: while the background listener of a worker runs, its callback can take
\* the next utterance, whatever the earlier processing threads are doing.
C28_CaptureNeverBlocked ==
    \A w \in DOMAIN workers :
        workers[w].pc = "listening" => ENABLED Callback(w)

\* A second utterance has been dispatched while the thread of the first has
\* not got past transcription, translation and synthesis.
C28_Witness ==
    /\ Len(tasks) >= 2
    /\ tasks[1].pc = "l580"
    /\ tasks[2].pc = "l580"

\* C29: when the service answers the first attempt of a translate_text call
\* without raising and without a text (no translation, or an empty text), the
\* call returns None having invoked the service exactly once.
C29_EmptyAnswerNotRetried ==
    ( /\ TranslatedNonBlank
      /\ translation.svc[1] # Raise
      /\ ~Truthy(translation.svc[1]) )
        => /\ translation.result = None
           /\ translation.calls = 1

\* The service answered the first attempt for "hola" with an empty text.
C29_Witness ==
    /\ TranslatedNonBlank
    /\ translation.key.text = <<"h", "o", "l", "a">>
    /\ translation.svc[1] = Empty
    /\ translation.calls = 1
    /\ translation.result = None

\* C30: no step of a thread whose session was started with auto-translate
\* disabled gets past line 595 or changes the three fields, and a change of
\* the checkbox changes neither auto_translate nor is_recording.
C30_ManualSessionTranslatesNothing ==
    [][ /\ \A t \in DOMAIN tasks :
              (StepOf(t) /\ ~tasks[t].started_auto)
                  => /\ tasks'[t].outcome \in {"exception", "no_text", "not_translated"}
                     /\ UNCHANGED LastFields
        /\ \A c \in Clients :
              ( /\ clients'[c] # clients[c]
                /\ clients'[c].status_message \in {"automatic_mode", "manual_mode"} )
                  => UNCHANGED << auto_translate, is_recording >> ]_vars

====
